---- MODULE Spec2Model ----
(***************************************************************************)
(* The real-time collaboration engine of the pair-programming backend:     *)
(* ConnectionManager (websocket/connection_manager.py), the websocket      *)
(* endpoint coroutine (websocket/websocket_router.py) and the part of      *)
(* RoomService (services/room_service.py) the endpoint calls.              *)
(*                                                                         *)
(* One endpoint coroutine runs per websocket.  The coroutines are asyncio  *)
(* tasks: a coroutine runs without interruption from one `await` to the    *)
(* next, and at every `await` any other coroutine may run.  An action of   *)
(* this module is one such uninterrupted segment.  A send_json call        *)
(* writes its frame to the transport when it is called (frames of one      *)
(* websocket leave in call order) and the caller is resumed in a later     *)
(* step.                                                                   *)
(***************************************************************************)
EXTENDS Integers, Sequences, FiniteSets, TLC

\* ---------------------------------------------------------------- bounds
NumConns == 3
MaxFrames == 1
MaxPos == 1
EditFrames == 2
ChatBurst == 52

\* ------------------------------------------------------- program constants
HistoryLimit == 50
PaletteSize == 14

Conns == 1..NumConns
Rooms == {"r1", "r2"}
UserIds == {"u1", "u2"}
Names == {"ann", "bob"}
Codes == {"x", "y"}
Languages == {"python", "go"}
Positions == 0..MaxPos
None == 0

DefaultCode == "welcome"
DefaultLanguage == "python"
StarterCode == "starter"

VARIABLES
    active_connections,   \* room_id -> set of websockets
    room_code_cache,      \* room_id -> code
    room_language_cache,  \* room_id -> language
    user_cursors,         \* room_id -> (user_id -> cursor)
    connection_info,      \* websocket -> info
    room_users,           \* room_id -> (user_id -> User)
    room_chat_history,    \* room_id -> sequence of ChatMessage
    room_typing_users,    \* room_id -> set of user ids
    msg_count,            \* ChatMessage ids handed out so far (uuid4: all distinct)
    db,                   \* the rooms table: room_id -> row
    room_ids,             \* the ids create_room has handed out (uuid4: never again)
    pc,                   \* where each endpoint coroutine is suspended
    local,                \* the locals of each endpoint coroutine
    bcast,                \* the frame of the broadcast_to_room call in progress
    alive,                \* whether the transport of a websocket still works
    frames_left,          \* frames the client of a websocket may still send
    received,             \* frames written to each websocket, in order
    next_seq,             \* number of broadcast_to_room calls made so far
    issued,               \* the observed broadcasts, in the order of their calls
    observe,              \* the frame types that `received` keeps
    last_code,            \* room_id -> code of the last code_update processed
    last_language,        \* room_id -> language of the last language_change processed
    joined,               \* websockets whose manager.connect returned
    left                  \* websockets for which manager.disconnect returned

registry == <<active_connections, room_code_cache, room_language_cache, user_cursors,
              connection_info, room_users, room_chat_history, room_typing_users,
              msg_count>>
vars == <<active_connections, room_code_cache, room_language_cache, user_cursors,
          connection_info, room_users, room_chat_history, room_typing_users,
          msg_count, db, room_ids, pc, local, bcast, alive, frames_left, received, next_seq,
          issued, observe, last_code, last_language, joined, left>>

\* ------------------------------------------------------------- dictionaries
EmptyDict == [k \in {} |-> None]
Put(d, k, v) == [x \in (DOMAIN d) \cup {k} |-> IF x = k THEN v ELSE d[x]]
Del(d, k) == [x \in (DOMAIN d) \ {k} |-> d[x]]
Get(d, k, default) == IF k \in DOMAIN d THEN d[k] ELSE default

\* ------------------------------------------------------------------ colours
\* ord() of the characters of the user ids of the model
Ords(u) == IF u = "u1" THEN <<117, 49>> ELSE <<117, 50>>
RECURSIVE SumSeq(_)
SumSeq(s) == IF s = <<>> THEN 0 ELSE Head(s) + SumSeq(Tail(s))
get_color_for_user(u) == SumSeq(Ords(u)) % PaletteSize

\* ------------------------------------------------------------------ records
NoLocal == [room_id |-> "", user_id |-> "", username |-> "", active_users |-> 0,
            code |-> "", language |-> "", username_left |-> "", loaded |-> ""]
Msg(type, c, body) == [type |-> type, seq |-> 0, from |-> c, body |-> body]
NoFrame == Msg("none", None, None)
NoBcast == [ctx |-> "none", room |-> "", msg |-> NoFrame, exclude |-> None,
            orig |-> {}, used |-> 0, visited |-> {}, stale |-> FALSE,
            disconnected |-> {}]
User(username) == [username |-> username, is_typing |-> FALSE]
Cursor(position, selection, username, color) ==
    [position |-> position, selection |-> selection, username |-> username,
     color |-> color]

Max(a, b) == IF a >= b THEN a ELSE b

FrameTypes == {"room_state", "user_joined", "user_left", "code_update",
               "cursor_update", "chat_message", "typing_start", "typing_stop",
               "language_change", "pong", "error"}

\* a frame written to websocket e
Deliver(rcv, e, m) ==
    IF m.type \in observe THEN [rcv EXCEPT ![e] = Append(@, m)] ELSE rcv

\* the state after startup, with one room created over REST
InitFrames(obs, frames) ==
    /\ observe = obs
    /\ active_connections = EmptyDict
    /\ room_code_cache = EmptyDict
    /\ room_language_cache = EmptyDict
    /\ user_cursors = EmptyDict
    /\ connection_info = EmptyDict
    /\ room_users = EmptyDict
    /\ room_chat_history = EmptyDict
    /\ room_typing_users = EmptyDict
    /\ msg_count = 0
    /\ db = [r \in {"r1"} |-> [code_content |-> StarterCode, language |-> "python",
                               active_users |-> 0]]
    /\ room_ids = {"r1"}
    /\ pc = [c \in Conns |-> "new"]
    /\ local = [c \in Conns |-> NoLocal]
    /\ bcast = [c \in Conns |-> NoBcast]
    /\ alive = [c \in Conns |-> TRUE]
    /\ frames_left = [c \in Conns |-> frames]
    /\ received = [c \in Conns |-> <<>>]
    /\ next_seq = 0
    /\ issued = <<>>
    /\ last_code = EmptyDict
    /\ last_language = EmptyDict
    /\ joined = {}
    /\ left = {}

InitWith(obs) == InitFrames(obs, MaxFrames)

Init == InitWith(FrameTypes)

\* ------------------------------------------------------------ RoomService
update_active_users_unclamped(loaded, delta) == loaded + delta
update_active_users(loaded, delta) == Max(0, loaded + delta)

\* STARTER_CODE.get(language, STARTER_CODE["python"]) of create_room
starter_code(language) ==
    CASE language = "javascript" -> "starter_javascript"
      [] language = "typescript" -> "starter_typescript"
      [] language = "java" -> "starter_java"
      [] language = "cpp" -> "starter_cpp"
      [] language = "go" -> "starter_go"
      [] language = "rust" -> "starter_rust"
      [] language = "ruby" -> "starter_ruby"
      [] OTHER -> StarterCode

\* db.commit() of an update: the unit of work writes the attribute only when
\* the value assigned differs from the value that was loaded
commit_row(r, field, loaded, value) ==
    IF value = loaded THEN db
    ELSE IF field = "active_users" THEN [db EXCEPT ![r].active_users = value]
    ELSE IF field = "code_content" THEN [db EXCEPT ![r].code_content = value]
    ELSE [db EXCEPT ![r].language = value]

\* --------------------------------------------------- ConnectionManager
get_room_users_count(ac, r) == IF r \in DOMAIN ac THEN Cardinality(ac[r]) ELSE 0

\* the five dictionaries as manager.disconnect leaves them
DisconnectRemoves(ac, c, r) == r \in DOMAIN ac /\ ac[r] \ {c} = {}
\* a disconnect that discards the websocket only as the last one of its room
disconnect_connections_last_only(ac, c, r) ==
    IF r \notin DOMAIN ac THEN ac
    ELSE IF ac[r] \ {c} = {} THEN Del(ac, r)
    ELSE ac
disconnect_connections(ac, c, r) ==
    IF r \notin DOMAIN ac THEN ac
    ELSE IF ac[r] \ {c} = {} THEN Del(ac, r)
    ELSE Put(ac, r, ac[r] \ {c})
disconnect_users(ac, ru, c, r, u) ==
    IF r \notin DOMAIN ac THEN ru
    ELSE LET ru1 == IF r \in DOMAIN ru /\ u \in DOMAIN ru[r]
                    THEN Put(ru, r, Del(ru[r], u)) ELSE ru
         IN IF ac[r] \ {c} = {} THEN Del(ru1, r) ELSE ru1
disconnect_cursors(ac, uc, c, r, u) ==
    IF r \notin DOMAIN ac THEN uc
    ELSE LET uc1 == IF r \in DOMAIN uc /\ u \in DOMAIN uc[r]
                    THEN Put(uc, r, Del(uc[r], u)) ELSE uc
         IN IF ac[r] \ {c} = {} THEN Del(uc1, r) ELSE uc1
disconnect_typing(ac, tu, c, r, u) ==
    IF r \notin DOMAIN ac THEN tu
    ELSE LET tu1 == IF r \in DOMAIN tu THEN Put(tu, r, tu[r] \ {u}) ELSE tu
         IN IF ac[r] \ {c} = {} THEN Del(tu1, r) ELSE tu1
disconnect_info(ci, c) == Del(ci, c)
\* the username manager.disconnect returns (lines 161, 167-168)
disconnect_username(ac, ru, r, u) ==
    IF r \in DOMAIN ac /\ r \in DOMAIN ru /\ u \in DOMAIN ru[r]
    THEN ru[r][u].username ELSE "Unknown"

\* the set object of room r is dropped from the dictionary: an iterator over it
\* no longer iterates over the room's connections
MarkStale(bc, r) ==
    [x \in Conns |-> IF bc[x].ctx # "none" /\ bc[x].room = r
                     THEN [bc[x] EXCEPT !.stale = TRUE] ELSE bc[x]]

\* the except branch of connect (lines 149-157): the first statement raises
\* KeyError when the room is gone, and then nothing is cleaned up
cleanup_connections(ac, c, r) ==
    IF r \in DOMAIN ac THEN Put(ac, r, ac[r] \ {c}) ELSE ac
cleanup_users(ac, ru, r, u) ==
    IF r \in DOMAIN ac /\ r \in DOMAIN ru /\ u \in DOMAIN ru[r]
    THEN Put(ru, r, Del(ru[r], u)) ELSE ru
cleanup_cursors(ac, uc, r, u) ==
    IF r \in DOMAIN ac /\ r \in DOMAIN uc /\ u \in DOMAIN uc[r]
    THEN Put(uc, r, Del(uc[r], u)) ELSE uc

\* ------------------------------------------------------- broadcast_to_room
\* where the caller of broadcast_to_room goes on once the call has returned
AfterBroadcast(ctx) ==
    CASE ctx = "join" -> "recv"
      [] ctx = "code" -> "persist_code"
      [] ctx = "lang" -> "persist_lang"
      [] ctx = "leave" -> "closed"
      [] OTHER -> "recv"

\* broadcast_to_room returns to its caller, which runs on to its next await
Return_with_notice(c, ctx) ==
    /\ pc' = [pc EXCEPT ![c] = AfterBroadcast(ctx)]
    /\ bcast' = [bcast EXCEPT ![c] = NoBcast]
    /\ joined' = IF ctx = "join" THEN joined \cup {c} ELSE joined
    /\ received' = IF bcast[c].disconnected = {} THEN received
                   ELSE Deliver(received, c, Msg("user_left", c, bcast[c].disconnected))
Return(c, ctx) ==
    /\ pc' = [pc EXCEPT ![c] = AfterBroadcast(ctx)]
    /\ bcast' = [bcast EXCEPT ![c] = NoBcast]
    /\ joined' = IF ctx = "join" THEN joined \cup {c} ELSE joined
    /\ received' = received

\* connection.send_json(message) is called for recipient e and the caller is
\* suspended; a send to a broken transport raises and e is put in `disconnected`
SendTo(c, e, b) ==
    /\ received' = IF alive[e] THEN Deliver(received, e, b.msg) ELSE received
    /\ bcast' = [bcast EXCEPT ![c] =
                    [b EXCEPT !.visited = @ \cup {e},
                              !.disconnected = IF alive[e] THEN @ ELSE @ \cup {e}]]
    /\ pc' = [pc EXCEPT ![c] = "bcast"]
    /\ joined' = joined

\* the recipients of a broadcast: every connection of the set but `exclude`
Recipients_with_connecting(s, excl) == (s \cup {c \in Conns : pc[c] = "accept"}) \ {excl}
Recipients_of_all_rooms(s, excl) ==
    (s \cup UNION {active_connections[r] : r \in DOMAIN active_connections}) \ {excl}
Recipients(s, excl) == s \ {excl}

\* the call of broadcast_to_room(r, msg, exclude) up to its first await; ac is
\* active_connections as the caller leaves it
BroadcastStart(c, ac, r, msg, excl, ctx) ==
    /\ next_seq' = next_seq + 1
    /\ issued' = IF msg.type \in observe
                 THEN Append(issued, [seq |-> next_seq + 1, type |-> msg.type,
                                      from |-> c, room |-> r,
                                      targets |-> Recipients(Get(ac, r, {}), excl)])
                 ELSE issued
    /\ IF r \notin DOMAIN ac \/ Recipients(ac[r], excl) = {}
       THEN Return(c, ctx)
       ELSE \E e \in Recipients(ac[r], excl) :
               SendTo(c, e, [ctx |-> ctx, room |-> r,
                             msg |-> [msg EXCEPT !.seq = next_seq + 1],
                             exclude |-> excl, orig |-> ac[r],
                             used |-> Cardinality(ac[r]), visited |-> {},
                             stale |-> FALSE, disconnected |-> {}])

\* the set iterator's check on every next(): RuntimeError when the size of the
\* set differs from the size it had when the iteration began
SizeChanged(b) ==
    \/ b.stale
    \/ Cardinality(active_connections[b.room]) # b.used

\* the endpoint coroutine ends with an exception that nothing catches; the
\* server then closes the websocket
Crash(c) ==
    /\ pc' = [pc EXCEPT ![c] = "crashed"]
    /\ alive' = [alive EXCEPT ![c] = FALSE]

\* resumption after one send of a broadcast: the next connection of the
\* iteration is sent to, or the iteration ends and the failed ones are dropped
BroadcastStep(c) ==
    /\ pc[c] = "bcast"
    /\ LET b == bcast[c]
           r == b.room
           u == local[c].user_id
       IN IF SizeChanged(b)
          THEN /\ Crash(c)
               /\ bcast' = [bcast EXCEPT ![c] = NoBcast]
               /\ IF b.ctx = "join"
                  THEN /\ active_connections' = cleanup_connections(active_connections, c, r)
                       /\ room_users' = cleanup_users(active_connections, room_users, r, u)
                       /\ user_cursors' = cleanup_cursors(active_connections, user_cursors, r, u)
                  ELSE UNCHANGED <<active_connections, room_users, user_cursors>>
               /\ UNCHANGED <<received, joined>>
          ELSE LET s == active_connections[r]
                   todo == Recipients(s, b.exclude) \ b.visited
                   must == todo \cap b.orig
               IN /\ \/ /\ \E e \in todo : SendTo(c, e, b)
                        /\ UNCHANGED active_connections
                     \/ /\ must = {}
                        /\ Return(c, b.ctx)
                        /\ active_connections' =
                              [active_connections EXCEPT ![r] = @ \ b.disconnected]
                  /\ UNCHANGED <<alive, room_users, user_cursors>>
    /\ UNCHANGED <<observe, room_ids, room_code_cache, room_language_cache, connection_info,
                   room_chat_history, room_typing_users, msg_count, db, local,
                   frames_left, next_seq, issued, last_code, last_language, left>>

\* ------------------------------------------------------ websocket_endpoint
\* a client opens /ws/{r}?userId=u&username=n; the endpoint awaits get_room
Open(c, r, u, n) ==
    /\ pc[c] = "new"
    /\ pc' = [pc EXCEPT ![c] = "get_room"]
    /\ local' = [local EXCEPT ![c] = [NoLocal EXCEPT !.room_id = r, !.user_id = u,
                                                     !.username = n]]
    /\ UNCHANGED <<observe, room_ids, registry, db, bcast, alive, frames_left, received, next_seq, issued,
                   last_code, last_language, joined, left>>

\* the caches as the endpoint leaves them once get_room has found the row
\* (lines 58-61): only a room without cached code is primed
prime_code_always(r) == Put(room_code_cache, r, db[r].code_content)
prime_code(r) ==
    IF r \notin DOMAIN room_code_cache
    THEN Put(room_code_cache, r, db[r].code_content)
    ELSE room_code_cache
prime_language_always(r) == Put(room_language_cache, r, db[r].language)
prime_language(r) ==
    IF r \notin DOMAIN room_code_cache
    THEN Put(room_language_cache, r, db[r].language)
    ELSE room_language_cache

\* get_room has answered: the caches are primed when the room has no cached
\* code, and update_active_users(+1) awaits a select of its own.  The Room
\* object loaded here is the one update_active_users works on: its select runs
\* in the same database session and returns the object of the identity map
\* with the attributes loaded here.
GetRoom(c) ==
    /\ pc[c] = "get_room"
    /\ LET r == local[c].room_id
       IN IF r \in DOMAIN db
          THEN /\ room_code_cache' = prime_code(r)
               /\ room_language_cache' = prime_language(r)
               /\ local' = [local EXCEPT ![c].active_users = db[r].active_users]
               /\ pc' = [pc EXCEPT ![c] = "inc_read"]
          ELSE /\ pc' = [pc EXCEPT ![c] = "accept"]
               /\ UNCHANGED <<room_code_cache, room_language_cache, local>>
    /\ UNCHANGED <<observe, room_ids, active_connections, user_cursors, connection_info, room_users,
                   room_chat_history, room_typing_users, msg_count, db, bcast, alive,
                   frames_left, received, next_seq, issued, last_code, last_language,
                   joined, left>>

\* the select of update_active_users(db, room_id, 1) has answered (lines
\* 70-71): without a row nothing is committed and the endpoint goes on to
\* manager.connect
IncRead(c) ==
    /\ pc[c] = "inc_read"
    /\ pc' = [pc EXCEPT ![c] = IF local[c].room_id \in DOMAIN db
                               THEN "inc_commit" ELSE "accept"]
    /\ UNCHANGED <<observe, room_ids, registry, db, local, bcast, alive, frames_left, received, next_seq,
                   issued, last_code, last_language, joined, left>>

\* db.commit() of coroutine c, which assigned value to an attribute loaded as
\* loaded: an UPDATE of a row deleted since it was loaded raises; when nothing
\* is written the commit returns.  The coroutine then awaits db.refresh
Commit(c, field, loaded, value, next) ==
    /\ LET r == local[c].room_id
       IN IF value = loaded \/ r \in DOMAIN db
          THEN /\ db' = commit_row(r, field, loaded, value)
               /\ pc' = [pc EXCEPT ![c] = next]
               /\ UNCHANGED alive
          ELSE /\ Crash(c)
               /\ UNCHANGED db
    /\ UNCHANGED <<observe, room_ids, registry, local, bcast, frames_left, received, next_seq, issued,
                   last_code, last_language, joined, left>>

\* the commit of update_active_users(db, room_id, 1) (lines 72-73)
IncCommit(c) ==
    /\ pc[c] = "inc_commit"
    /\ Commit(c, "active_users", local[c].active_users,
              update_active_users(local[c].active_users, 1), "inc_refresh")

\* db.refresh(room) after a commit (lines 54, 64, 74) has answered: the row
\* is selected again, and a row that is gone makes it raise.  After it the
\* update returns and its caller goes on
AfterRefresh(p) ==
    CASE p = "inc_refresh" -> "accept"
      [] p = "dec_refresh" -> "notify_left"
      [] OTHER -> "recv"
Refresh(c) ==
    /\ pc[c] \in {"inc_refresh", "dec_refresh", "refresh_code", "refresh_lang"}
    /\ IF local[c].room_id \in DOMAIN db
       THEN /\ pc' = [pc EXCEPT ![c] = AfterRefresh(pc[c])]
            /\ UNCHANGED alive
       ELSE Crash(c)
    /\ UNCHANGED <<observe, room_ids, registry, db, local, bcast, frames_left, received, next_seq, issued,
                   last_code, last_language, joined, left>>

\* the room_state frame of connect (lines 116-134)
welcome_message_uncounted(c, r, u, ac, ru, uc, ch) ==
    Msg("room_state", c,
        [code |-> Get(room_code_cache, r, DefaultCode),
         language |-> Get(room_language_cache, r, DefaultLanguage),
         activeUsers |-> Cardinality(ac[r] \ {c}),
         users |-> ru[r],
         cursors |-> uc[r],
         userId |-> u,
         chatHistory |-> Get(ch, r, <<>>)])
welcome_message_stale_users(c, r, u, ac, ru, uc, ch) ==
    Msg("room_state", c,
        [code |-> Get(room_code_cache, r, DefaultCode),
         language |-> Get(room_language_cache, r, DefaultLanguage),
         activeUsers |-> Cardinality(ac[r]),
         users |-> Get(room_users, r, EmptyDict),
         cursors |-> uc[r],
         userId |-> u,
         chatHistory |-> Get(ch, r, <<>>)])
welcome_message(c, r, u, ac, ru, uc, ch) ==
    Msg("room_state", c,
        [code |-> Get(room_code_cache, r, DefaultCode),
         language |-> Get(room_language_cache, r, DefaultLanguage),
         activeUsers |-> Cardinality(ac[r]),
         users |-> ru[r],
         cursors |-> uc[r],
         userId |-> u,
         chatHistory |-> Get(ch, r, <<>>)])

\* the chat history connect leaves: a room that is not in active_connections
\* is initialised, its history included (line 88)
connect_history(r) ==
    IF r \in DOMAIN active_connections THEN room_chat_history
    ELSE Put(room_chat_history, r, <<>>)

\* manager.connect from the return of websocket.accept() to the await of
\* send_json(welcome_message) (lines 83-135)
Register(c) ==
    /\ pc[c] = "accept"
    /\ LET r == local[c].room_id
           u == local[c].user_id
           n == local[c].username
           fresh == r \notin DOMAIN active_connections
           ac == Put(active_connections, r, Get(active_connections, r, {}) \cup {c})
           ru == Put(room_users, r, Put(IF fresh THEN EmptyDict ELSE room_users[r],
                                        u, User(n)))
           uc == Put(user_cursors, r, Put(IF fresh THEN EmptyDict ELSE user_cursors[r], u,
                                          Cursor(0, None, n, get_color_for_user(u))))
       IN /\ active_connections' = ac
          /\ room_users' = ru
          /\ user_cursors' = uc
          /\ room_chat_history' = connect_history(r)
          /\ room_typing_users' = IF fresh THEN Put(room_typing_users, r, {})
                                  ELSE room_typing_users
          /\ connection_info' = Put(connection_info, c,
                                    [room_id |-> r, user_id |-> u, username |-> n])
          /\ IF alive[c]
             THEN /\ received' = Deliver(received, c,
                                  welcome_message(c, r, u, ac, ru, uc, connect_history(r)))
                  /\ pc' = [pc EXCEPT ![c] = "welcome"]
             ELSE /\ received' = received
                  /\ pc' = [pc EXCEPT ![c] = "welcome_err"]
    /\ UNCHANGED <<observe, room_ids, room_code_cache, room_language_cache, msg_count, db, local, bcast,
                   alive, frames_left, next_seq, issued, last_code, last_language, joined, left>>

\* websocket.accept() raises on a transport that is already broken: connect
\* ends before anything is registered and the endpoint ends with it
AcceptFails(c) ==
    /\ pc[c] = "accept"
    /\ ~alive[c]
    /\ Crash(c)
    /\ UNCHANGED <<observe, room_ids, registry, db, local, bcast, frames_left, received, next_seq, issued,
                   last_code, last_language, joined, left>>

user_joined_message(c, ac) ==
    Msg("user_joined", c,
        [userId |-> local[c].user_id, username |-> local[c].username,
         activeUsers |-> Cardinality(ac[local[c].room_id])])

\* the welcome frame is sent: the user_joined broadcast begins (lines 137-148);
\* len(self.active_connections[room_id]) raises KeyError when the room is gone,
\* and so does the first statement of the except branch
AfterWelcome(c) ==
    /\ pc[c] = "welcome"
    /\ LET r == local[c].room_id
       IN IF r \in DOMAIN active_connections
          THEN /\ BroadcastStart(c, active_connections, r,
                                 user_joined_message(c, active_connections), c, "join")
               /\ UNCHANGED alive
          ELSE /\ Crash(c)
               /\ UNCHANGED <<bcast, received, next_seq, issued, joined>>
    /\ UNCHANGED <<observe, room_ids, registry, db, local, frames_left, last_code, last_language, left>>

\* send_json(welcome_message) raised: the except branch of connect
WelcomeFailed(c) ==
    /\ pc[c] = "welcome_err"
    /\ LET r == local[c].room_id
           u == local[c].user_id
       IN /\ active_connections' = cleanup_connections(active_connections, c, r)
          /\ room_users' = cleanup_users(active_connections, room_users, r, u)
          /\ user_cursors' = cleanup_cursors(active_connections, user_cursors, r, u)
    /\ Crash(c)
    /\ UNCHANGED <<observe, room_ids, room_code_cache, room_language_cache, connection_info,
                   room_chat_history, room_typing_users, msg_count, db, local, bcast,
                   frames_left, received, next_seq, issued, last_code, last_language,
                   joined, left>>

\* the client goes away or its network breaks
ClientDrop(c) ==
    /\ pc[c] \notin {"new", "closed", "crashed"}
    /\ alive[c]
    /\ alive' = [alive EXCEPT ![c] = FALSE]
    /\ UNCHANGED <<observe, room_ids, registry, db, pc, local, bcast, frames_left, received, next_seq, issued,
                   last_code, last_language, joined, left>>

\* receive_text raises WebSocketDisconnect: manager.disconnect runs and
\* update_active_users(-1) awaits its get_room (lines 135-141)
RecvDisconnect(c) ==
    /\ pc[c] = "recv"
    /\ ~alive[c]
    /\ LET r == local[c].room_id
           u == local[c].user_id
           ac == active_connections
       IN /\ active_connections' = disconnect_connections(ac, c, r)
          /\ room_users' = disconnect_users(ac, room_users, c, r, u)
          /\ user_cursors' = disconnect_cursors(ac, user_cursors, c, r, u)
          /\ room_typing_users' = disconnect_typing(ac, room_typing_users, c, r, u)
          /\ connection_info' = disconnect_info(connection_info, c)
          /\ bcast' = IF DisconnectRemoves(ac, c, r) THEN MarkStale(bcast, r) ELSE bcast
          /\ local' = [local EXCEPT ![c].username_left =
                                        disconnect_username(ac, room_users, r, u)]
    /\ left' = left \cup {c}
    /\ pc' = [pc EXCEPT ![c] = "dec_read"]
    /\ UNCHANGED <<observe, room_ids, room_code_cache, room_language_cache, room_chat_history, msg_count,
                   db, alive, frames_left, received, next_seq, issued, last_code,
                   last_language, joined>>

user_left_message(c, ac) ==
    Msg("user_left", c,
        [userId |-> local[c].user_id, username |-> local[c].username_left,
         activeUsers |-> get_room_users_count(ac, local[c].room_id)])

\* get_room of update_active_users(-1) has answered; without a row there is
\* nothing to commit, update_active_users returns and the endpoint awaits the
\* close of its database session (lines 140-141)
DecRead(c) ==
    /\ pc[c] = "dec_read"
    /\ LET r == local[c].room_id
       IN IF r \in DOMAIN db
          THEN /\ local' = [local EXCEPT ![c].active_users = db[r].active_users]
               /\ pc' = [pc EXCEPT ![c] = "dec_commit"]
          ELSE /\ pc' = [pc EXCEPT ![c] = "notify_left"]
               /\ UNCHANGED local
    /\ UNCHANGED <<observe, room_ids, registry, db, bcast, alive, frames_left, received, next_seq, issued,
                   last_code, last_language, joined, left>>

\* the commit of update_active_users(-1) (room_service.py 72-73)
DecCommit(c) ==
    /\ pc[c] = "dec_commit"
    /\ Commit(c, "active_users", local[c].active_users,
              update_active_users(local[c].active_users, -1), "dec_refresh")

\* update_active_users(-1) has returned, its session is closed and the
\* user_left broadcast begins (websocket_router.py 143-151)
NotifyLeft(c) ==
    /\ pc[c] = "notify_left"
    /\ BroadcastStart(c, active_connections, local[c].room_id,
                      user_left_message(c, active_connections), None, "leave")
    /\ UNCHANGED <<observe, room_ids, registry, db, local, alive, frames_left, last_code, last_language,
                   left>>

\* ------------------------------------------------ frames of a JOINED client
\* the client of c may send a frame: the endpoint is suspended in receive_text
CanReceive(c) == pc[c] = "recv" /\ alive[c] /\ frames_left[c] > 0
Consume(c) == frames_left' = [frames_left EXCEPT ![c] = @ - 1]

White == -1
\* the cursor a code_update or cursor_update writes (lines 219-226, 246-253)
upsert_cursor(uc, r, u, n, position, selection) ==
    IF r \in DOMAIN uc
    THEN Put(uc, r, Put(uc[r], u,
             Cursor(position, selection, n,
                    IF u \in DOMAIN uc[r] THEN uc[r][u].color ELSE White)))
    ELSE uc

\* {"type": "code_update", "payload": {"code": code, "cursorPosition": position}}
RecvCodeUpdate(c, code, position) ==
    /\ CanReceive(c)
    /\ Consume(c)
    /\ LET r == local[c].room_id
           u == local[c].user_id
           n == local[c].username
       IN /\ room_code_cache' = Put(room_code_cache, r, code)
          /\ last_code' = Put(last_code, r, code)
          /\ user_cursors' = upsert_cursor(user_cursors, r, u, n, position, None)
          /\ local' = [local EXCEPT ![c].code = code]
          /\ BroadcastStart(c, active_connections, r,
                Msg("code_update", c, [code |-> code, cursorPosition |-> position,
                                       userId |-> u, username |-> n]), c, "code")
    /\ UNCHANGED <<observe, room_ids, active_connections, room_language_cache, connection_info, room_users,
                   room_chat_history, room_typing_users, msg_count, db, alive,
                   last_language, left>>

\* update_room_code after the broadcast (websocket_router.py 88-90): its
\* get_room has answered (room_service.py 50); without a row nothing is written
PersistCode(c) ==
    /\ pc[c] = "persist_code"
    /\ LET r == local[c].room_id
       IN IF r \in DOMAIN db
          THEN /\ local' = [local EXCEPT ![c].loaded = db[r].code_content]
               /\ pc' = [pc EXCEPT ![c] = "commit_code"]
          ELSE /\ pc' = [pc EXCEPT ![c] = "recv"]
               /\ UNCHANGED local
    /\ UNCHANGED <<observe, room_ids, registry, db, bcast, alive, frames_left, received, next_seq, issued,
                   last_code, last_language, joined, left>>

\* the commit of update_room_code (room_service.py 52-53)
CommitCode(c) ==
    /\ pc[c] = "commit_code"
    /\ Commit(c, "code_content", local[c].loaded, local[c].code, "refresh_code")

\* {"type": "cursor_update", "payload": {"cursorPosition": .., "selection": ..}}
RecvCursorUpdate(c, position, selection) ==
    /\ CanReceive(c)
    /\ Consume(c)
    /\ LET r == local[c].room_id
           u == local[c].user_id
           n == local[c].username
       IN /\ user_cursors' = upsert_cursor(user_cursors, r, u, n, position, selection)
          /\ BroadcastStart(c, active_connections, r,
                Msg("cursor_update", c, [userId |-> u, username |-> n,
                                         cursorPosition |-> position,
                                         selection |-> selection]), c, "cursor")
    /\ UNCHANGED <<observe, room_ids, active_connections, room_code_cache, room_language_cache,
                   connection_info, room_users, room_chat_history, room_typing_users,
                   msg_count, db, local, alive, last_code, last_language, left>>

\* str.strip() on a chat content, a sequence of characters: the characters
\* str.isspace() holds of, those beyond ASCII written as their code points
Whitespace ==
    {" ", "\t", "\n", "\r", "\f", "\\x0b", "\\x1c", "\\x1d", "\\x1e", "\\x1f", "\\x85",
     "\\xa0", "\\u1680", "\\u2000", "\\u2001", "\\u2002", "\\u2003", "\\u2004",
     "\\u2005", "\\u2006", "\\u2007", "\\u2008", "\\u2009", "\\u200a", "\\u2028",
     "\\u2029", "\\u202f", "\\u205f", "\\u3000"}
RECURSIVE LStrip(_)
LStrip(s) == IF s # <<>> /\ Head(s) \in Whitespace THEN LStrip(Tail(s)) ELSE s
RECURSIVE RStrip(_)
RStrip(s) ==
    IF s # <<>> /\ s[Len(s)] \in Whitespace THEN RStrip(SubSeq(s, 1, Len(s) - 1)) ELSE s
Strip_nothing(s) == s
Strip(s) == RStrip(LStrip(s))

ChatMessage(id, u, n, content, type) ==
    [id |-> id, userId |-> u, username |-> n, content |-> content, type |-> type]

\* the history handle_chat_message leaves (lines 270-275)
append_history_untrimmed(h, msg) == Append(h, msg)
append_history_keep_oldest(h, msg) ==
    LET h1 == Append(h, msg)
    IN IF Len(h1) > HistoryLimit THEN SubSeq(h1, 1, HistoryLimit) ELSE h1
append_history(h, msg) ==
    LET h1 == Append(h, msg)
    IN IF Len(h1) > HistoryLimit
       THEN SubSeq(h1, Len(h1) - HistoryLimit + 1, Len(h1))
       ELSE h1

\* {"type": "chat_message", "payload": {"content": content, "messageType": msg_type}};
\* a payload without messageType is msg_type = "message"
RecvChatMessage(c, content, msg_type) ==
    /\ CanReceive(c)
    /\ Consume(c)
    /\ LET r == local[c].room_id
           u == local[c].user_id
           n == local[c].username
           msg == ChatMessage(msg_count + 1, u, n, content, msg_type)
       IN IF Strip(content) # <<>>
          THEN /\ msg_count' = msg_count + 1
               /\ room_chat_history' =
                     Put(room_chat_history, r,
                         append_history(Get(room_chat_history, r, <<>>), msg))
               /\ BroadcastStart(c, active_connections, r,
                                 Msg("chat_message", c, [message |-> msg]), None, "chat")
          ELSE UNCHANGED <<msg_count, room_chat_history, pc, bcast, received, next_seq, issued,
                           joined>>
    /\ UNCHANGED <<observe, room_ids, active_connections, room_code_cache, room_language_cache, user_cursors,
                   connection_info, room_users, room_typing_users, db, local, alive,
                   last_code, last_language, left>>

set_typing(ru, r, u, flag) ==
    IF r \in DOMAIN ru /\ u \in DOMAIN ru[r]
    THEN Put(ru, r, Put(ru[r], u, [ru[r][u] EXCEPT !.is_typing = flag]))
    ELSE ru

\* {"type": "typing_start"}
RecvTypingStart(c) ==
    /\ CanReceive(c)
    /\ Consume(c)
    /\ LET r == local[c].room_id
           u == local[c].user_id
       IN /\ room_typing_users' =
                Put(room_typing_users, r, Get(room_typing_users, r, {}) \cup {u})
          /\ room_users' = set_typing(room_users, r, u, TRUE)
          /\ BroadcastStart(c, active_connections, r,
                Msg("typing_start", c, [userId |-> u, username |-> local[c].username]),
                c, "typing")
    /\ UNCHANGED <<observe, room_ids, active_connections, room_code_cache, room_language_cache, user_cursors,
                   connection_info, room_chat_history, msg_count, db, local, alive,
                   last_code, last_language, left>>

\* {"type": "typing_stop"}
RecvTypingStop(c) ==
    /\ CanReceive(c)
    /\ Consume(c)
    /\ LET r == local[c].room_id
           u == local[c].user_id
       IN /\ room_typing_users' =
                IF r \in DOMAIN room_typing_users
                THEN Put(room_typing_users, r, room_typing_users[r] \ {u})
                ELSE room_typing_users
          /\ room_users' = set_typing(room_users, r, u, FALSE)
          /\ BroadcastStart(c, active_connections, r,
                Msg("typing_stop", c, [userId |-> u, username |-> local[c].username]),
                c, "typing")
    /\ UNCHANGED <<observe, room_ids, active_connections, room_code_cache, room_language_cache, user_cursors,
                   connection_info, room_chat_history, msg_count, db, local, alive,
                   last_code, last_language, left>>

\* {"type": "language_change", "payload": {"language": language}}
RecvLanguageChange(c, language) ==
    /\ CanReceive(c)
    /\ Consume(c)
    /\ LET r == local[c].room_id
       IN /\ room_language_cache' = Put(room_language_cache, r, language)
          /\ last_language' = Put(last_language, r, language)
          /\ local' = [local EXCEPT ![c].language = language]
          /\ BroadcastStart(c, active_connections, r,
                Msg("language_change", c,
                    [language |-> language, userId |-> local[c].user_id,
                     username |-> local[c].username]), None, "lang")
    /\ UNCHANGED <<observe, room_ids, active_connections, room_code_cache, user_cursors, connection_info,
                   room_users, room_chat_history, room_typing_users, msg_count, db,
                   alive, last_code, left>>

\* update_room_language after the broadcast (websocket_router.py 121-123): its
\* get_room has answered (room_service.py 60)
PersistLanguage(c) ==
    /\ pc[c] = "persist_lang"
    /\ LET r == local[c].room_id
       IN IF r \in DOMAIN db
          THEN /\ local' = [local EXCEPT ![c].loaded = db[r].language]
               /\ pc' = [pc EXCEPT ![c] = "commit_lang"]
          ELSE /\ pc' = [pc EXCEPT ![c] = "recv"]
               /\ UNCHANGED local
    /\ UNCHANGED <<observe, room_ids, registry, db, bcast, alive, frames_left, received, next_seq, issued,
                   last_code, last_language, joined, left>>

\* the commit of update_room_language (room_service.py 62-63)
CommitLanguage(c) ==
    /\ pc[c] = "commit_lang"
    /\ Commit(c, "language", local[c].loaded, local[c].language, "refresh_lang")

\* a frame answered to its sender alone
Reply_to_all(c, type) ==
    /\ received' = [d \in Conns |-> IF d \in joined
                                    THEN Append(received[d], Msg(type, c, None))
                                    ELSE received[d]]
    /\ UNCHANGED <<observe, room_ids, registry, db, pc, local, bcast, alive, next_seq, issued, last_code,
                   last_language, joined, left>>
Reply_twice(c, type) ==
    /\ received' = Deliver(Deliver(received, c, Msg(type, c, None)), c, Msg(type, c, None))
    /\ UNCHANGED <<observe, room_ids, registry, db, pc, local, bcast, alive, next_seq, issued, last_code,
                   last_language, joined, left>>
Reply(c, type) ==
    /\ received' = Deliver(received, c, Msg(type, c, None))
    /\ UNCHANGED <<observe, room_ids, registry, db, pc, local, bcast, alive, next_seq, issued, last_code,
                   last_language, joined, left>>

\* {"type": "ping"}
RecvPing(c) ==
    /\ CanReceive(c)
    /\ Consume(c)
    /\ Reply(c, "pong")

\* a frame that json.loads rejects
RecvBadJson(c) ==
    /\ CanReceive(c)
    /\ Consume(c)
    /\ Reply(c, "error")

\* a JSON object whose type is none of the types of the if/elif chain: no
\* branch runs and the loop goes on
RecvUnknownType(c) ==
    /\ CanReceive(c)
    /\ Consume(c)
    /\ UNCHANGED <<observe, room_ids, registry, db, pc, local, bcast, alive, received, next_seq,
                   issued, last_code,
                   last_language, joined, left>>

\* JSON that is no object, or whose payload or chat content has the wrong
\* type: message.get / payload.get / content.strip raises AttributeError,
\* which neither except clause of the endpoint catches
RecvIllTyped(c) ==
    /\ CanReceive(c)
    /\ Consume(c)
    /\ Crash(c)
    /\ UNCHANGED <<observe, room_ids, registry, db, local, bcast, received, next_seq, issued, last_code,
                   last_language, joined, left>>

\* a select or a commit of the durable store raises (lost database
\* connection): nothing is written
DbError(c) ==
    /\ pc[c] \in {"get_room", "inc_read", "inc_commit", "dec_read", "dec_commit",
                  "persist_code", "commit_code", "persist_lang", "commit_lang"}
    /\ Crash(c)
    /\ UNCHANGED <<observe, room_ids, registry, db, local, bcast, frames_left, received, next_seq, issued,
                   last_code, last_language, joined, left>>

\* db.commit() has returned, the row is written, and the db.refresh(room) the
\* coroutine is suspended in raises: the exception leaves the endpoint
RefreshFails(c) ==
    /\ pc[c] \in {"inc_refresh", "dec_refresh", "refresh_code", "refresh_lang"}
    /\ Crash(c)
    /\ UNCHANGED <<observe, room_ids, registry, db, local, bcast, frames_left, received, next_seq, issued,
                   last_code, last_language, joined, left>>

\* POST /api/rooms: RoomService.create_room adds a row under a new uuid4, an
\* id that was never handed out before; an empty language is "python"
create_room(r, language) ==
    /\ r \notin room_ids
    /\ room_ids' = room_ids \cup {r}
    /\ LET l == IF language = "" THEN "python" ELSE language
       IN db' = [x \in DOMAIN db \cup {r} |->
                    IF x = r THEN [code_content |-> starter_code(l), language |-> l,
                                   active_users |-> 0]
                    ELSE db[x]]
    /\ UNCHANGED <<observe, registry, pc, local, bcast, alive, frames_left, received, next_seq,
                   issued, last_code, last_language, joined, left>>

\* RoomService.delete_room removes the row of a room; without a row it
\* returns False and nothing changes.  No route of the application calls it
delete_room(r) ==
    /\ r \in DOMAIN db
    /\ db' = [x \in DOMAIN db \ {r} |-> db[x]]
    /\ UNCHANGED <<observe, room_ids, registry, pc, local, bcast, alive, frames_left, received,
                   next_seq, issued, last_code, last_language, joined, left>>

\* the clients of the scenarios: websockets 1 and 3 come from one browser
\* (one stored userId) under two display names, websocket 2 from another
UserOf(c) == IF c = 2 THEN "u2" ELSE "u1"
NameOf(c) == IF c = 3 THEN "bob" ELSE "ann"

\* -------------------------------------------------- joins and leaves only
NextJoinLeave ==
    \E c \in Conns :
        \/ Open(c, "r2", UserOf(c), NameOf(c))
        \/ GetRoom(c)
        \/ Register(c)
        \/ AcceptFails(c)
        \/ AfterWelcome(c)
        \/ WelcomeFailed(c)
        \/ BroadcastStep(c)
        \/ ClientDrop(c)
        \/ RecvDisconnect(c)
        \/ DecRead(c)
        \/ NotifyLeft(c)

SpecJoinLeave == InitWith({}) /\ [][NextJoinLeave]_vars

\* ------------------------- joins and leaves of a room with a durable row
Pair == {1, 2}
NextDurable ==
    \E c \in Pair :
        \/ Open(c, "r1", UserOf(c), NameOf(c))
        \/ GetRoom(c)
        \/ IncRead(c)
        \/ IncCommit(c)
        \/ Refresh(c)
        \/ Register(c)
        \/ AcceptFails(c)
        \/ AfterWelcome(c)
        \/ WelcomeFailed(c)
        \/ BroadcastStep(c)
        \/ ClientDrop(c)
        \/ RecvDisconnect(c)
        \/ DecRead(c)
        \/ DecCommit(c)
        \/ NotifyLeft(c)

SpecDurable == InitWith({"user_left"}) /\ [][NextDurable]_vars

\* ------------------------------------------- frames of the members of a room
\* the state in which the websockets of s have joined room r one after the
\* other, in increasing order, and every user_joined broadcast is done
LastOf(s, u) == CHOOSE c \in s : UserOf(c) = u /\ \A d \in s : UserOf(d) = u => d <= c
\* the room_state frame member c of s was sent when the members joined in the
\* order of their numbers
JoinedWelcome(s, r, c) ==
    LET t == {d \in s : d <= c}
        us == {UserOf(d) : d \in t}
    IN welcome_message(c, r, UserOf(c), [x \in {r} |-> t],
           [x \in {r} |-> [u \in us |-> User(NameOf(LastOf(t, u)))]],
           [x \in {r} |-> [u \in us |->
               Cursor(0, None, NameOf(LastOf(t, u)), get_color_for_user(u))]],
           EmptyDict)
\* the members of s in the order of their numbers
RECURSIVE InOrder(_)
InOrder(s) ==
    IF s = {} THEN <<>>
    ELSE LET c == CHOOSE x \in s : \A d \in s : x <= d
         IN <<c>> \o InOrder(s \ {c})
UpTo(s, c) == {d \in s : d <= c}
\* the user_joined frame of member d of s, and the record of its broadcast
JoinedFrame(s, r, d) ==
    [Msg("user_joined", d,
         [userId |-> UserOf(d), username |-> NameOf(d),
          activeUsers |-> Cardinality(UpTo(s, d))])
     EXCEPT !.seq = Cardinality(UpTo(s, d))]
JoinedRecord(s, r, d) ==
    [seq |-> Cardinality(UpTo(s, d)), type |-> "user_joined", from |-> d, room |-> r,
     targets |-> UpTo(s, d) \ {d}]
\* the user_joined frames member c was sent by the members that joined after it
JoinedAfter(s, r, c) ==
    LET later == InOrder(s \ UpTo(s, c))
    IN [i \in 1..Len(later) |-> JoinedFrame(s, r, later[i])]
JoinedIssued(s, r) ==
    LET all == InOrder(s)
    IN [i \in 1..Len(all) |-> JoinedRecord(s, r, all[i])]
\* the rooms that have entries in the registry: connect alone makes them
Entered(s, r) == IF s = {} THEN {} ELSE {r}
InitJoined(s, r, obs, frames) ==
    /\ observe = obs
    /\ active_connections = [x \in Entered(s, r) |-> s]
    /\ room_code_cache = [x \in Entered(s, r) \cap {"r1"} |-> StarterCode]
    /\ room_language_cache = [x \in Entered(s, r) \cap {"r1"} |-> "python"]
    /\ user_cursors = [x \in Entered(s, r) |->
            [u \in {UserOf(c) : c \in s} |->
                Cursor(0, None, NameOf(LastOf(s, u)), get_color_for_user(u))]]
    /\ connection_info = [c \in s |-> [room_id |-> r, user_id |-> UserOf(c),
                                       username |-> NameOf(c)]]
    /\ room_users = [x \in Entered(s, r) |->
            [u \in {UserOf(c) : c \in s} |-> User(NameOf(LastOf(s, u)))]]
    /\ room_chat_history = [x \in Entered(s, r) |-> <<>>]
    /\ room_typing_users = [x \in Entered(s, r) |-> {}]
    /\ msg_count = 0
    /\ db = [x \in {"r1"} |-> [code_content |-> StarterCode, language |-> "python",
                               active_users |-> IF r = "r1" THEN Cardinality(s) ELSE 0]]
    /\ room_ids = {"r1"}
    /\ pc = [c \in Conns |-> IF c \in s THEN "recv" ELSE "new"]
    /\ local = [c \in Conns |->
            IF c \in s
            THEN [NoLocal EXCEPT !.room_id = r, !.user_id = UserOf(c),
                                 !.username = NameOf(c),
                                 !.active_users = IF r = "r1"
                                                  THEN Cardinality({d \in s : d < c})
                                                  ELSE 0]
            ELSE NoLocal]
    /\ bcast = [c \in Conns |-> NoBcast]
    /\ alive = [c \in Conns |-> TRUE]
    /\ frames_left = [c \in Conns |-> frames]
    /\ received = [c \in Conns |->
            IF c \in s
            THEN (IF "room_state" \in obs THEN <<JoinedWelcome(s, r, c)>> ELSE <<>>)
                 \o (IF "user_joined" \in obs THEN JoinedAfter(s, r, c) ELSE <<>>)
            ELSE <<>>]
    /\ next_seq = Cardinality(s)
    /\ issued = IF "user_joined" \in obs THEN JoinedIssued(s, r) ELSE <<>>
    /\ last_code = EmptyDict
    /\ last_language = EmptyDict
    /\ joined = s
    /\ left = {}

\* edits of the members of a room, none of whom goes away
NextCode ==
    \E c \in Conns :
        \/ \E code \in Codes : RecvCodeUpdate(c, code, MaxPos)
        \/ RecvCursorUpdate(c, MaxPos, None)
        \/ BroadcastStep(c)
        \/ PersistCode(c)

SpecCode ==
    InitJoined(Conns, "r2", {"code_update", "cursor_update"}, MaxFrames)
        /\ [][NextCode]_vars

\* frames of the members of a room while the client of websocket 2 may go
\* away; the clients of the other websockets send the frames
Senders == Conns \ {2}
NextLeave ==
    \/ \E c \in Senders :
        \/ RecvCodeUpdate(c, "x", MaxPos)
        \/ RecvChatMessage(c, <<"h", "i">>, "message")
        \/ RecvIllTyped(c)
    \/ ClientDrop(2)
    \/ \E c \in Conns :
        \/ BroadcastStep(c)
        \/ PersistCode(c)
        \/ RecvDisconnect(c)
        \/ DecRead(c)
        \/ NotifyLeft(c)

SpecLeave ==
    InitJoined(Conns, "r2", {"code_update", "chat_message"}, MaxFrames)
        /\ [][NextLeave]_vars

\* --------------------------- two clients come, edit, go and come to room r1
NextReconnect ==
    \E c \in Pair :
        \/ Open(c, "r1", UserOf(c), NameOf(c))
        \/ GetRoom(c)
        \/ IncRead(c)
        \/ IncCommit(c)
        \/ Refresh(c)
        \/ Register(c)
        \/ AcceptFails(c)
        \/ AfterWelcome(c)
        \/ WelcomeFailed(c)
        \/ RecvCodeUpdate(c, "x", MaxPos)
        \/ RecvLanguageChange(c, "go")
        \/ BroadcastStep(c)
        \/ PersistCode(c)
        \/ CommitCode(c)
        \/ PersistLanguage(c)
        \/ CommitLanguage(c)
        \/ ClientDrop(c)
        \/ RecvDisconnect(c)
        \/ DecRead(c)
        \/ DecCommit(c)
        \/ NotifyLeft(c)

SpecReconnect == InitFrames({"room_state"}, EditFrames) /\ [][NextReconnect]_vars

\* ------------------------- one member of room r2 sends a burst of chat frames,
\* some of them blank
NextChat ==
    \/ RecvChatMessage(1, <<"h", "i">>, "message")
    \/ RecvChatMessage(1, <<" ">>, "message")
    \/ BroadcastStep(1)

SpecChat == InitJoined({1}, "r2", {}, ChatBurst) /\ [][NextChat]_vars

\* ------- sessions join room r2, which has a member, while members edit and leave
NextWelcome ==
    \/ \E c \in Conns \ {1} :
          \/ Open(c, "r2", UserOf(c), NameOf(c))
          \/ GetRoom(c)
          \/ Register(c)
          \/ AfterWelcome(c)
    \/ \E c \in Pair : RecvCodeUpdate(c, "x", MaxPos)
    \/ \E c \in Conns :
          \/ BroadcastStep(c)
          \/ PersistCode(c)
    \/ ClientDrop(1)
    \/ RecvDisconnect(1)
    \/ DecRead(1)
    \/ NotifyLeft(1)

SpecWelcome ==
    /\ InitJoined({1}, "r2", {"room_state", "user_joined", "code_update", "user_left"},
                  MaxFrames)
    /\ [][NextWelcome]_vars

\* the same joins and leaves, observed through their user_joined and user_left
SpecEvict == InitWith({"user_joined", "user_left"}) /\ [][NextDurable]_vars

\* ---------------- the client of websocket 2 has stopped reading: a send_json
\* to it never completes, so a coroutine suspended in one is never resumed
Stalled == {2}
ResumeUnlessStalled(c) ==
    /\ bcast[c].visited \cap Stalled = {}
    /\ BroadcastStep(c)

NextStall ==
    \E c \in Conns \ Stalled :
        \/ \E code \in Codes : RecvCodeUpdate(c, code, MaxPos)
        \/ RecvChatMessage(c, <<"h", "i">>, "message")
        \/ ResumeUnlessStalled(c)

SpecStall ==
    InitJoined(Conns, "r2", {"code_update", "chat_message"}, MaxFrames) /\ [][NextStall]_vars

\* -------- members of room r1 edit and change the language while writes to the
\* durable store may fail
NextPersistFail ==
    \E c \in Pair :
        \/ RecvCodeUpdate(c, "x", MaxPos)
        \/ RecvLanguageChange(c, "go")
        \/ BroadcastStep(c)
        \/ PersistCode(c)
        \/ CommitCode(c)
        \/ Refresh(c)
        \/ PersistLanguage(c)
        \/ CommitLanguage(c)
        \/ DbError(c)
        \/ RefreshFails(c)

SpecPersistFail ==
    /\ InitJoined(Conns, "r1", {"code_update", "language_change"}, MaxFrames)
    /\ [][NextPersistFail]_vars

\* ------------- members of room r1 send several edits and language changes
NextPersistWait ==
    \E c \in Pair :
        \/ \E code \in Codes : RecvCodeUpdate(c, code, MaxPos)
        \/ RecvLanguageChange(c, "go")
        \/ BroadcastStep(c)
        \/ PersistCode(c)
        \/ CommitCode(c)
        \/ Refresh(c)
        \/ PersistLanguage(c)
        \/ CommitLanguage(c)

SpecPersistWait ==
    /\ InitJoined(Pair, "r1", {"code_update", "language_change"}, EditFrames)
    /\ [][NextPersistWait]_vars

\* ------------ members of room r2 send pings, frames that are no JSON, frames
\* of an unknown type, ill-typed frames and chat messages
NextFrames ==
    \E c \in Pair :
        \/ RecvPing(c)
        \/ RecvBadJson(c)
        \/ RecvUnknownType(c)
        \/ RecvIllTyped(c)
        \/ RecvChatMessage(c, <<"h", "i">>, "message")
        \/ BroadcastStep(c)

SpecFrames ==
    /\ InitJoined(Pair, "r2", {"pong", "error", "chat_message"}, EditFrames)
    /\ [][NextFrames]_vars

\* ------- two members of room r2 send chat messages, blank ones among them
MessageTypes == {"message", "system"}
Contents ==
    {<<>>, <<" ">>, <<"\t", " ">>, <<"\n">>, <<"\r">>, <<" ", "\r", "\n">>, <<"h", "i">>,
     <<" ", "h">>}

NextBlank ==
    \E c \in Pair :
        \/ \E content \in Contents : \E t \in MessageTypes : RecvChatMessage(c, content, t)
        \/ BroadcastStep(c)

SpecBlank ==
    /\ InitJoined(Pair, "r2", {"chat_message", "error"}, EditFrames)
    /\ [][NextBlank]_vars

\* ------- the member of room r1 edits, chats and leaves; another session joins
NextRejoin ==
    \E c \in Pair :
        \/ Open(c, "r1", UserOf(c), NameOf(c))
        \/ GetRoom(c)
        \/ IncRead(c)
        \/ IncCommit(c)
        \/ Refresh(c)
        \/ Register(c)
        \/ AcceptFails(c)
        \/ AfterWelcome(c)
        \/ WelcomeFailed(c)
        \/ RecvCodeUpdate(c, "x", MaxPos)
        \/ RecvChatMessage(c, <<"h", "i">>, "message")
        \/ BroadcastStep(c)
        \/ PersistCode(c)
        \/ CommitCode(c)
        \/ ClientDrop(c)
        \/ RecvDisconnect(c)
        \/ DecRead(c)
        \/ DecCommit(c)
        \/ NotifyLeft(c)

SpecRejoin ==
    /\ InitJoined({1}, "r1", {"room_state"}, EditFrames)
    /\ [][NextRejoin]_vars

\* ------- room r1 has a member; two more sessions come to either room, and
\* every session sends frames and leaves
Handle(c) ==
    \/ \E r \in Rooms : c = 3 /\ Open(c, r, UserOf(c), NameOf(c))
    \/ c = 2 /\ Open(c, "r2", UserOf(c), NameOf(c))
    \/ GetRoom(c)
    \/ IncRead(c)
    \/ IncCommit(c)
    \/ Refresh(c)
    \/ Register(c)
    \/ AcceptFails(c)
    \/ AfterWelcome(c)
    \/ WelcomeFailed(c)
    \/ c \in Pair /\ RecvCodeUpdate(c, "x", MaxPos)
    \/ c \in Pair /\ RecvCursorUpdate(c, MaxPos, None)
    \/ c \in Pair /\ RecvChatMessage(c, <<"h", "i">>, "message")
    \/ c \in Pair /\ RecvTypingStart(c)
    \/ c \in Pair /\ RecvTypingStop(c)
    \/ c \in Pair /\ RecvLanguageChange(c, "go")
    \/ BroadcastStep(c)
    \/ PersistCode(c)
    \/ CommitCode(c)
    \/ PersistLanguage(c)
    \/ CommitLanguage(c)
    \/ c = 3 /\ ClientDrop(c)
    \/ RecvDisconnect(c)
    \/ DecRead(c)
    \/ DecCommit(c)
    \/ NotifyLeft(c)

NextRooms == \E c \in Conns : Handle(c)

SpecRooms ==
    /\ InitJoined({1}, "r1", FrameTypes, MaxFrames)
    /\ [][NextRooms]_vars

\* ------- two sessions join, edit and leave room r2, whose row is created in
\* the durable store, and rows are deleted from it, at any moment of it
NextStore ==
    \/ \E r \in Rooms : \E language \in Languages \cup {""} : create_room(r, language)
    \/ \E r \in Rooms : delete_room(r)
    \/ \E c \in Pair :
          \/ Open(c, "r2", UserOf(c), NameOf(c))
          \/ GetRoom(c)
          \/ IncRead(c)
          \/ IncCommit(c)
          \/ Refresh(c)
          \/ Register(c)
          \/ AcceptFails(c)
          \/ AfterWelcome(c)
          \/ WelcomeFailed(c)
          \/ RecvCodeUpdate(c, "x", MaxPos)
          \/ BroadcastStep(c)
          \/ PersistCode(c)
          \/ CommitCode(c)
          \/ ClientDrop(c)
          \/ RecvDisconnect(c)
          \/ DecRead(c)
          \/ DecCommit(c)
          \/ NotifyLeft(c)

SpecStore == InitWith({}) /\ [][NextStore]_vars

\* ------------------------------------------------------------------ claims
Members(r) == Get(active_connections, r, {})
InRoom(r) == {c \in Conns : local[c].room_id = r}
JoinedIn(r) == joined \cap InRoom(r)
LeftIn(r) == left \cap InRoom(r)

\* no join of room r is in progress and no leave of it is outstanding: every
\* coroutine of the room waits for a frame on a working transport, has run
\* manager.disconnect, or has ended
Settled(r) ==
    \A c \in InRoom(r) :
        \/ pc[c] = "recv" /\ alive[c]
        \/ pc[c] \in {"dec_read", "dec_commit", "dec_refresh", "notify_left", "closed",
                    "crashed"}
        \/ pc[c] = "bcast" /\ bcast[c].ctx = "leave"

\* C1: after any interleaving of joins and leaves of a room, the number of
\* live connections get_room_users_count reports is the number of completed
\* joins minus the number of completed leaves
JoinsMinusLeaves ==
    \A r \in Rooms :
        Settled(r) =>
            get_room_users_count(active_connections, r)
                = Cardinality(JoinedIn(r)) - Cardinality(LeftIn(r))

\* three joins and one leave of room r2 are done
JoinsMinusLeavesWitness ==
    /\ Settled("r2")
    /\ JoinedIn("r2") = Conns
    /\ Cardinality(LeftIn("r2")) = 1
    /\ get_room_users_count(active_connections, "r2") = 2

\* the user ids of the live connections of room r
BoundUserIds(r) == {local[c].user_id : c \in Members(r)}

\* C5: in every state and every room, a user id is a key of users and of
\* cursors exactly when a live connection of the room is bound to it
UsersIffConnections ==
    \A r \in Rooms : \A u \in UserIds :
        (u \in DOMAIN Get(room_users, r, EmptyDict)
            /\ u \in DOMAIN Get(user_cursors, r, EmptyDict))
        <=> u \in BoundUserIds(r)

\* C6: the leave sequence of a session whose disconnect is detected lowers
\* the durable active-user counter of its room by exactly 1
LeaveDecrementsByOne ==
    [][\A c \in Conns :
          (pc[c] = "dec_commit" /\ pc'[c] \notin {"dec_commit", "crashed"})
          => db'[local[c].room_id].active_users
                = db[local[c].room_id].active_users - 1]_vars

\* the frames of type t websocket c has been sent, in order
FramesOf(c, t) == SelectSeq(received[c], LAMBDA m : m.type = t)
Idle == \A c \in Conns : pc[c] \in {"new", "recv", "closed", "crashed"}

\* C2: code updates reach every other member in the order in which they were
\* applied to the code cache: once nothing is in flight, the last code_update
\* a member that sent none itself has received carries the cached code
CodeConverges ==
    Idle =>
        \A r \in Rooms : \A c \in Members(r) :
            (local[c].code = "" /\ FramesOf(c, "code_update") # <<>>)
            => FramesOf(c, "code_update")[Len(FramesOf(c, "code_update"))].body.code
                  = room_code_cache[r]

\* C3: every websocket is sent the frames of the broadcasts of its room in
\* the order in which the broadcasts were issued
InIssueOrder ==
    \A c \in Conns : \A i, j \in 1..Len(received[c]) :
        (i < j /\ received[c][i].seq > 0 /\ received[c][j].seq > 0)
        => received[c][i].seq < received[c][j].seq

\* C7: every session that reached JOINED and whose handler has ended, for
\* whatever reason, has had the leave sequence run: it is in no room's
\* connections and manager.disconnect has returned for it
LeaveOnEveryEnd ==
    \A c \in joined :
        pc[c] \in {"closed", "crashed"}
        => c \in left /\ c \notin Members(local[c].room_id)

\* the number of frames of broadcast k websocket d has been sent
Copies(d, k) == Len(SelectSeq(received[d], LAMBDA m : m.seq = k))
\* broadcast k is over: no broadcast_to_room call is still sending it
Over(k) == \A c \in Conns : bcast[c].ctx = "none" \/ bcast[c].msg.seq # k
\* the recipients of issued broadcast b that have been members with a working
\* transport since the call
Steady(b) == {d \in b.targets : alive[d] /\ d \in Members(b.room)}

\* C8: an accepted chat_message is delivered exactly once to every member of
\* the room, the sender included
ChatReachesAllOnce ==
    \A i \in 1..Len(issued) :
        (issued[i].type = "chat_message" /\ Over(issued[i].seq))
        => \A d \in Steady(issued[i]) : Copies(d, issued[i].seq) = 1

\* C9: a code_update or cursor_update is delivered to every other member of
\* the room and never to the session that sent it
EditReachesOthersOnly ==
    \A i \in 1..Len(issued) :
        issued[i].type \in {"code_update", "cursor_update"}
        => /\ Copies(issued[i].from, issued[i].seq) = 0
           /\ Over(issued[i].seq)
                => \A d \in Steady(issued[i]) \ {issued[i].from} :
                      Copies(d, issued[i].seq) = 1

\* the room_state frame a websocket is sent in this step, as a set
Welcomed(c) ==
    IF pc[c] = "accept" /\ pc'[c] = "welcome"
    THEN {received'[c][Len(received'[c])]} ELSE {}

\* C4: the room_state frame of a joining session carries the code of the last
\* code_update and the language of the last language_change processed in its
\* room, whether or not the room has been empty since
SnapshotHasLastUpdate ==
    [][\A c \in Conns : \A m \in Welcomed(c) :
          LET r == local[c].room_id
          IN /\ r \in DOMAIN last_code => m.body.code = last_code[r]
             /\ r \in DOMAIN last_language => m.body.language = last_language[r]]_vars

\* a session has joined the empty room after another one edited it, changed
\* its language and left
SnapshotHasLastUpdateWitness ==
    \E c \in Conns : \E i \in 1..Len(received[c]) :
        /\ received[c][i].type = "room_state"
        /\ received[c][i].body.code = "x"
        /\ received[c][i].body.language = "go"
        /\ received[c][i].body.activeUsers = 1
        /\ "r1" \in DOMAIN last_code /\ "r1" \in DOMAIN last_language
        /\ left # {}

\* C10: in every reachable state the chat history of every room holds at most
\* 50 messages
HistoryAtMostLimit ==
    \A r \in DOMAIN room_chat_history : Len(room_chat_history[r]) <= HistoryLimit

\* more than 50 messages were accepted and the history is full
HistoryAtMostLimitWitness ==
    /\ msg_count > HistoryLimit
    /\ Len(room_chat_history["r2"]) = HistoryLimit
    /\ room_chat_history["r2"][HistoryLimit].id = msg_count

Min(a, b) == IF a < b THEN a ELSE b

\* C11: after n accepted chat messages the history of the room is the last
\* min(n, 50) of them in arrival order (message ids count the arrivals)
HistoryIsNewestInOrder ==
    \A r \in DOMAIN room_chat_history :
        LET h == room_chat_history[r]
        IN /\ Len(h) = Min(msg_count, HistoryLimit)
           /\ \A i \in 1..Len(h) : h[i].id = msg_count - Len(h) + i

\* the 52nd message has arrived: the history starts with the third
HistoryIsNewestInOrderWitness ==
    /\ msg_count = HistoryLimit + 2
    /\ Len(room_chat_history["r2"]) = HistoryLimit
    /\ room_chat_history["r2"][1].id = 3

\* C12: activeUsers of the room_state frame is the connection count of the
\* room right after the joiner was registered, the joiner included
SnapshotCountsJoiner ==
    [][\A c \in Conns : \A m \in Welcomed(c) :
          LET r == local[c].room_id
          IN /\ m.body.activeUsers = get_room_users_count(active_connections', r)
             /\ r \in DOMAIN active_connections'
             /\ c \in active_connections'[r]]_vars

\* a session joined a room that had a member and was told activeUsers 2
SnapshotCountsJoinerWitness ==
    \E c \in Conns : \E i \in 1..Len(received[c]) :
        /\ received[c][i].type = "room_state"
        /\ received[c][i].body.activeUsers = 2
        /\ c \in joined

\* C13: the room_state frame is one read of one room state, the state right
\* after the joiner was registered: all six fields are that state's values
SnapshotIsOneState ==
    [][\A c \in Conns : \A m \in Welcomed(c) :
          LET r == local[c].room_id
          IN /\ m.body.code = Get(room_code_cache', r, DefaultCode)
             /\ m.body.language = Get(room_language_cache', r, DefaultLanguage)
             /\ m.body.activeUsers = Cardinality(active_connections'[r])
             /\ m.body.users = room_users'[r]
             /\ m.body.cursors = user_cursors'[r]
             /\ m.body.chatHistory = room_chat_history'[r]]_vars

\* a session joined while the other member had edited the code: its snapshot
\* shows both users, both cursors and the edited code
SnapshotIsOneStateWitness ==
    \E c \in Conns : \E i \in 1..Len(received[c]) :
        /\ received[c][i].type = "room_state"
        /\ DOMAIN received[c][i].body.users = {"u1", "u2"}
        /\ DOMAIN received[c][i].body.cursors = {"u1", "u2"}
        /\ received[c][i].body.code \in Codes
        /\ \E u \in {"u1", "u2"} : received[c][i].body.cursors[u].position = MaxPos

\* C14: the first frame written to a joining websocket is its own room_state
FirstFrameIsOwnSnapshot ==
    \A c \in Conns :
        received[c] # <<>> =>
            /\ received[c][1].type = "room_state"
            /\ received[c][1].from = c

\* a session joined while a member's code_update was being broadcast, and
\* received it after its room_state
FirstFrameIsOwnSnapshotWitness ==
    \E c \in Conns :
        /\ Len(received[c]) >= 2
        /\ received[c][1].type = "room_state"
        /\ received[c][2].type = "code_update"
        /\ \E b \in 1..Len(issued) :
              /\ issued[b].seq = received[c][2].seq
              /\ c \notin issued[b].targets

\* the broadcast_to_room call of coroutine c ends in this step, by returning
\* or by raising
BroadcastEnds(c) == bcast[c].ctx # "none" /\ bcast'[c].ctx = "none"

\* C15: a broadcast in which a send failed still ends by returning, has sent
\* to every other recipient that is still a member, and leaves the recipients
\* whose send failed outside the room's connections
FailedSendIsContained ==
    [][\A c \in Conns :
          BroadcastEnds(c) /\ bcast[c].disconnected # {} =>
              LET b == bcast[c]
                  now == Get(active_connections', b.room, {})
              IN /\ pc'[c] # "crashed"
                 /\ (Recipients(b.orig, b.exclude) \cap now) \ b.disconnected
                        \subseteq b.visited
                 /\ b.disconnected \cap now = {}]_vars

\* the websockets that the broadcast_to_room call of c drops from the room's
\* set as it returns in this step (lines 210-211)
Evicted(c) ==
    IF BroadcastEnds(c) /\ pc'[c] # "crashed"
    THEN bcast[c].disconnected \cap Get(active_connections, bcast[c].room, {})
    ELSE {}

\* C16: the eviction of a recipient by a failed broadcast send writes no frame,
\* issues no broadcast and leaves the durable counter alone; a user_left
\* broadcast is issued only by the except branch of the leaving session's own
\* endpoint, after its manager.disconnect
EvictionIsSilent ==
    [][/\ \A c \in Conns :
             Evicted(c) # {} =>
                 /\ db' = db
                 /\ received' = received
                 /\ issued' = issued
                 /\ next_seq' = next_seq
       /\ Len(issued') > Len(issued) /\ issued'[Len(issued')].type = "user_left" =>
             LET e == issued'[Len(issued')].from
             IN /\ pc[e] = "notify_left"
                /\ e \in left
                /\ \A i \in 1..Len(issued) :
                      ~(issued[i].type = "user_left" /\ issued[i].from = e)]_vars

\* the send of a user_joined to member e failed and the broadcast returned,
\* dropping e from the set; the endpoint of e ran the leave afterwards and
\* issued the user_left of e
EvictionIsSilentWitness ==
    \E e \in Conns : \E i \in 1..Len(issued) : \E j \in 1..Len(issued) :
        /\ j < i
        /\ issued[i].type = "user_left" /\ issued[i].from = e
        /\ issued[j].type = "user_joined" /\ e \in issued[j].targets
        /\ Copies(e, issued[j].seq) = 0
        /\ issued[j].from \in joined
        /\ db["r1"].active_users = 1

\* C17: a client that has stopped reading blocks nobody: once nothing but the
\* completion of sends to it is outstanding, every broadcast issued has reached
\* each of its other recipients
StalledClientBlocksNobody ==
    ~ENABLED NextStall =>
        \A i \in 1..Len(issued) :
            \A d \in issued[i].targets \ Stalled : Copies(d, issued[i].seq) = 1

\* C18: whatever happens to the writes to the durable store, the caches hold
\* the last code and language processed and every joined session stays in
\* its receive loop
PersistFailureIsHarmless ==
    /\ \A r \in DOMAIN last_code : Get(room_code_cache, r, DefaultCode) = last_code[r]
    /\ \A r \in DOMAIN last_language :
          Get(room_language_cache, r, DefaultLanguage) = last_language[r]
    /\ \A c \in joined : pc[c] # "crashed" /\ alive[c]

\* C19: the broadcast of a code_update or language_change never waits for a
\* write to the durable store: a frame that a joined session has sent can be
\* processed and broadcast while a persistence write of that session is pending
BroadcastNeverAwaitsStore ==
    \A c \in Conns :
        /\ c \in joined /\ alive[c] /\ frames_left[c] > 0
        /\ pc[c] \in {"persist_code", "commit_code", "refresh_code", "persist_lang",
                    "commit_lang", "refresh_lang"}
        => /\ ENABLED RecvCodeUpdate(c, "x", MaxPos)
           /\ ENABLED RecvLanguageChange(c, "go")

\* C20: a room without a durable row is never joined: it has no Room State,
\* no connection, User or cursor is registered for it, and no user_joined is
\* broadcast for it
NoJoinWithoutDurableRoom ==
    \A r \in Rooms \ DOMAIN db :
        /\ r \notin DOMAIN active_connections
        /\ r \notin DOMAIN room_users
        /\ r \notin DOMAIN user_cursors
        /\ r \notin DOMAIN room_chat_history
        /\ \A c \in DOMAIN connection_info : connection_info[c].room_id # r
        /\ joined \cap InRoom(r) = {}

\* websocket c alone is sent one frame of type t in this step
OnlyGets(c, t) ==
    /\ received'[c] = Append(received[c], Msg(t, c, None))
    /\ \A d \in Conns \ {c} : received'[d] = received[d]

\* C21: a frame of an unknown type is answered with exactly one error frame
\* to its sender, changes no Room State and is broadcast to nobody
UnknownTypeGetsError ==
    [][\A c \in Conns :
          RecvUnknownType(c) =>
              /\ OnlyGets(c, "error")
              /\ registry' = registry
              /\ next_seq' = next_seq]_vars

\* the session of c goes on in its receive loop and nothing of the registry,
\* the durable store or the broadcasts changes in this step
NonFatalNoEffect(c) ==
    /\ pc'[c] = "recv" /\ alive'[c]
    /\ c \in Members(local[c].room_id)'
    /\ registry' = registry
    /\ db' = db
    /\ next_seq' = next_seq /\ issued' = issued

\* C22: a frame that is no JSON is answered with one error frame to its sender
\* alone; the session stays joined and reads on, no Room State changes and
\* nothing is broadcast
BadJsonGetsError ==
    [][\A c \in Conns :
          RecvBadJson(c) => OnlyGets(c, "error") /\ NonFatalNoEffect(c)]_vars

\* a session was sent an error frame for a frame that was no JSON, and then
\* the pong of the ping it sent next; the other member was sent nothing
BadJsonGetsErrorWitness ==
    /\ Len(received[1]) = 2
    /\ received[1][1].type = "error"
    /\ received[1][2].type = "pong"
    /\ received[2] = <<>>
    /\ pc[1] = "recv"

\* C23: a frame that is JSON but ill-typed (no object, payload no object, chat
\* content no string) is answered with an error frame to its sender alone and
\* is not fatal: the session stays joined and registered, no Room State changes
IllTypedGetsError ==
    [][\A c \in Conns :
          RecvIllTyped(c) => OnlyGets(c, "error") /\ NonFatalNoEffect(c)]_vars

\* C24: a ping is answered with exactly one pong to its sender; no other
\* session is sent a frame, and neither Room State nor the durable store changes
PingGetsOnePong ==
    [][\A c \in Conns :
          RecvPing(c) => OnlyGets(c, "pong") /\ NonFatalNoEffect(c)]_vars

\* a member was sent a pong while the other member, who had sent nothing but
\* a chat message, was sent that message only
PingGetsOnePongWitness ==
    /\ Len(FramesOf(2, "pong")) = 1
    /\ FramesOf(1, "pong") = <<>>
    /\ Len(received[1]) = 1 /\ received[1][1].type = "chat_message"
    /\ received[1][1].from = 1
    /\ frames_left[1] = EditFrames - 1


\* a chat content that is empty or consists of whitespace only
Blank(s) == \A i \in 1..Len(s) : s[i] \in Whitespace

\* C25: a chat_message with an empty or whitespace-only content is dropped
\* silently: the chat history is unchanged, no frame is broadcast and the
\* sender is sent no error frame
BlankChatIsDropped ==
    [][\A c \in Conns : \A content \in Contents :
          (Blank(content) /\ \E t \in MessageTypes : RecvChatMessage(c, content, t)) =>
              /\ room_chat_history' = room_chat_history
              /\ msg_count' = msg_count
              /\ received' = received
              /\ next_seq' = next_seq /\ issued' = issued
              /\ bcast' = bcast /\ pc' = pc
              /\ registry' = registry]_vars

\* a member sent a blank chat message and then a chat message "hi": the room's
\* history holds the second alone and each member was sent that one frame
BlankChatIsDroppedWitness ==
    /\ frames_left[1] = 0 /\ frames_left[2] = EditFrames
    /\ Len(Get(room_chat_history, "r2", <<>>)) = 1
    /\ room_chat_history["r2"][1].content = <<"h", "i">>
    /\ \A d \in Pair : Len(received[d]) = 1 /\ received[d][1].type = "chat_message"
    /\ msg_count = 1


\* the last connection of room r leaves in this step
LastLeaves(r) == r \in DOMAIN active_connections /\ r \notin DOMAIN active_connections'

\* C26: when the last connection of a room has left, the room's users, cursors
\* and typing users are gone while its code cache, language cache and chat
\* history are what they were, and the snapshot of a later join to the room
\* shows these retained values
EmptyRoomKeepsContent ==
    [][/\ \A r \in Rooms :
             LastLeaves(r) =>
                 /\ r \notin DOMAIN room_users'
                 /\ r \notin DOMAIN user_cursors'
                 /\ r \notin DOMAIN room_typing_users'
                 /\ room_code_cache' = room_code_cache
                 /\ room_language_cache' = room_language_cache
                 /\ room_chat_history' = room_chat_history
       /\ \A c \in Conns : \A m \in Welcomed(c) :
             LET r == local[c].room_id
             IN r \notin DOMAIN active_connections =>
                    /\ m.body.code = Get(room_code_cache, r, DefaultCode)
                    /\ m.body.language = Get(room_language_cache, r, DefaultLanguage)
                    /\ m.body.chatHistory = Get(room_chat_history, r, <<>>)]_vars


\* what manager.disconnect(c, room_id, user_id) would leave of the registry if
\* it were invoked in this state
disconnect(c) ==
    LET r == local[c].room_id
        u == local[c].user_id
        ac == active_connections
    IN [active_connections |-> disconnect_connections(ac, c, r),
        room_users |-> disconnect_users(ac, room_users, c, r, u),
        user_cursors |-> disconnect_cursors(ac, user_cursors, c, r, u),
        room_typing_users |-> disconnect_typing(ac, room_typing_users, c, r, u),
        connection_info |-> disconnect_info(connection_info, c)]

Registered ==
    [active_connections |-> active_connections,
     room_users |-> room_users,
     user_cursors |-> user_cursors,
     room_typing_users |-> room_typing_users,
     connection_info |-> connection_info]

\* C27: leave is idempotent: for a session whose leave has run, a second leave
\* (same connection, room id and user id) leaves the registry as it is, and it
\* removes neither the User nor the cursor of another session that is live
LeaveIsIdempotent ==
    \A c \in left :
        /\ disconnect(c) = Registered
        /\ \A d \in Members(local[c].room_id) \ {c} :
              LET r == local[c].room_id
                  u == local[d].user_id
              IN /\ u \in DOMAIN room_users[r] => u \in DOMAIN disconnect(c).room_users[r]
                 /\ u \in DOMAIN user_cursors[r] => u \in DOMAIN disconnect(c).user_cursors[r]


\* the Room State of room r: its entry in each of the seven dictionaries
RoomState(r) ==
    [connections |-> Get(active_connections, r, None),
     codeCache |-> Get(room_code_cache, r, None),
     languageCache |-> Get(room_language_cache, r, None),
     users |-> Get(room_users, r, None),
     cursors |-> Get(user_cursors, r, None),
     chatHistory |-> Get(room_chat_history, r, None),
     typingUsers |-> Get(room_typing_users, r, None)]

\* C28: rooms are independent: a step of a join, a leave or a frame handled for
\* room R leaves the Room State of every other room unchanged and sends no
\* frame to a session of another room
RoomsAreIndependent ==
    [][\A c \in Conns :
          Handle(c) =>
              \A r \in Rooms \ {local'[c].room_id} :
                  /\ RoomState(r)' = RoomState(r)
                  /\ \A d \in InRoom(r) : received'[d] = received[d]]_vars

\* both rooms have members; a member of r2 has sent a chat message that is in
\* the history of r2 and has reached the members of r2, while the member of r1
\* has its snapshot only and the history of r1 is empty
RoomsAreIndependentWitness ==
    /\ Members("r1") = {1}
    /\ Cardinality(Members("r2")) = 2
    /\ Len(Get(room_chat_history, "r2", <<>>)) = 1
    /\ \A d \in Members("r2") : Len(FramesOf(d, "chat_message")) = 1
    /\ Get(room_chat_history, "r1", <<>>) = <<>>
    /\ Len(received[1]) = 1 /\ received[1][1].type = "room_state"


\* every frame of a session of room r has been processed to its end, the
\* durable-store write included, and none has failed
Processed(r) == \A c \in InRoom(r) : pc[c] = "recv"

\* C29: once every code_update and language_change of a room has been processed
\* and all their durable-store writes have completed without failure, the code
\* and language of the durable room are those of the caches, also when updates
\* of different senders were processed concurrently
DurableEqualsCache ==
    \A r \in DOMAIN db :
        (r \in DOMAIN room_code_cache /\ Processed(r)) =>
            /\ db[r].code_content = room_code_cache[r]
            /\ db[r].language = room_language_cache[r]


\* every join and every leave of room r has run to its end: each session of
\* the room waits for a frame on a working transport or its coroutine has ended
Completed(r) ==
    \A c \in InRoom(r) :
        \/ pc[c] = "recv" /\ alive[c]
        \/ pc[c] \in {"closed", "crashed"}

\* C30: for a room with a durable row, once all joins and leaves have completed
\* (their durable-store updates included, and the joins that failed while the
\* welcome snapshot was sent), the durable active-user counter is the number of
\* live connections of the room, whatever the interleaving
DurableCounterMirrorsLive ==
    \A r \in DOMAIN db :
        Completed(r) => db[r].active_users = get_room_users_count(active_connections, r)


\* C31: the durable active-user counter of every room is never negative,
\* whatever the sequence and interleaving of increments and decrements: a
\* decrement of a counter of 0 leaves it at 0
CounterNeverNegative ==
    \A r \in DOMAIN db : db[r].active_users >= 0

\* a leave has committed its decrement of a counter it had read as 0 (two
\* joins had committed the same increment), and the counter is 0
CounterNeverNegativeWitness ==
    \E c \in left :
        /\ pc[c] \in {"dec_refresh", "notify_left", "bcast", "closed"}
        /\ local[c].active_users = 0
        /\ local[c].room_id \in DOMAIN db
        /\ db[local[c].room_id].active_users = 0
        /\ Cardinality(left) = 2


\* C32: a transport failure of session s stays with s: when s is disconnected,
\* every other session of its room stays in the room's connections and
\* registered and goes on where it was, and a broadcast of another session
\* that was in progress when s was disconnected ends without an error
TransportFailureIsLocal ==
    [][/\ \A s \in Conns :
             RecvDisconnect(s) =>
                 \A d \in Members(local[s].room_id) \ {s} :
                     /\ d \in Members(local[s].room_id)'
                     /\ d \in DOMAIN connection_info'
                     /\ pc'[d] = pc[d]
       /\ \A d \in Conns :
             (BroadcastEnds(d) /\ bcast[d].orig \cap left # {}) => pc'[d] # "crashed"]_vars


\* C33: the user_left broadcast of a session that has disconnected is sent to
\* every session that remains in the room, and its activeUsers is the number
\* of connections the room has after the leave
UserLeftReachesRemaining ==
    [][\A c \in Conns :
          (BroadcastEnds(c) /\ bcast[c].ctx = "leave") =>
              LET b == bcast[c]
              IN /\ pc'[c] # "crashed"
                 /\ (b.orig \cap Members(b.room)') \subseteq b.visited
                 /\ b.msg.body.activeUsers = Cardinality(b.orig)]_vars


\* a join or a leave has changed the connections of the room of the broadcast
\* of c since that broadcast began
MembershipChanged(c) ==
    bcast[c].stale \/ Get(active_connections, bcast[c].room, {}) # bcast[c].orig

\* C34: a join or a leave of the room while a broadcast is suspended between
\* two sends, the leave of the last connection included, does not make the
\* broadcast fail: it raises nothing into the handler of the sender and has
\* sent to every recipient that was a member from its beginning to its end
BroadcastSurvivesMembershipChange ==
    [][\A c \in Conns :
          (BroadcastEnds(c) /\ MembershipChanged(c)) =>
              LET b == bcast[c]
              IN /\ pc'[c] # "crashed"
                 /\ Recipients(b.orig \cap Get(active_connections, b.room, {}), b.exclude)
                        \subseteq b.visited]_vars


\* C35: the caches are primed from the durable room only when the room has no
\* cached code: the join of a room with cached code leaves both caches as they
\* are, and the join of a room without cached code sets both to the code and
\* language of the durable room, before the snapshot is built
PrimedOnlyWithoutCache ==
    [][\A c \in Conns :
          GetRoom(c) =>
              LET r == local[c].room_id
              IN /\ pc'[c] # "welcome"
                 /\ r \in DOMAIN room_code_cache =>
                        /\ room_code_cache' = room_code_cache
                        /\ room_language_cache' = room_language_cache
                 /\ (r \in DOMAIN db /\ r \notin DOMAIN room_code_cache) =>
                        /\ room_code_cache'[r] = db[r].code_content
                        /\ room_language_cache'[r] = db[r].language]_vars

\* a session has loaded the durable room r1 for its join while the caches of
\* r1 hold a language change and an edit that the durable room does not have
PrimedOnlyWithoutCacheWitness ==
    \E c \in Conns :
        /\ pc[c] = "inc_read"
        /\ local[c].room_id = "r1"
        /\ room_code_cache["r1"] = "x"
        /\ db["r1"].code_content = StarterCode
        /\ room_language_cache["r1"] = "go"


\* the typing users of room r are users of r, and a user of r is among them
\* exactly when its is_typing flag is set
TypingConsistent(r) ==
    LET tu == Get(room_typing_users, r, {})
        ru == Get(room_users, r, EmptyDict)
    IN /\ tu \subseteq DOMAIN ru
       /\ \A u \in DOMAIN ru : u \in tu <=> ru[u].is_typing

\* nothing but the typing entry of user u in room r differs after this step
OnlyTypingOf(r, u) ==
    /\ \A x \in Rooms \ {r} :
          /\ Get(room_typing_users, x, {})' = Get(room_typing_users, x, {})
          /\ Get(room_users, x, EmptyDict)' = Get(room_users, x, EmptyDict)
    /\ Get(room_typing_users, r, {})' \ {u} = Get(room_typing_users, r, {}) \ {u}
    /\ \A v \in DOMAIN Get(room_users, r, EmptyDict) \ {u} :
          room_users'[r][v] = room_users[r][v]

\* C36: the typing state is consistent in every reachable state (every typing
\* user is a user of the room, and a user is typing exactly when its is_typing
\* flag is set), and typing_start and typing_stop of a session change the entry
\* of their sender only
TypingStateConsistent ==
    [][/\ \A r \in Rooms : TypingConsistent(r)'
       /\ \A c \in Conns :
             (RecvTypingStart(c) \/ RecvTypingStop(c)) =>
                 OnlyTypingOf(local[c].room_id, local[c].user_id)]_vars


\* the cursor of user u in room r after this step is at position p with the
\* username and color its session got at connect, and no other cursor of the
\* room differs
CursorMoved(c, p) ==
    LET r == local[c].room_id
        u == local[c].user_id
    IN /\ r \in DOMAIN user_cursors' /\ u \in DOMAIN user_cursors'[r]
       /\ user_cursors'[r][u].position = p
       /\ user_cursors'[r][u].username = local[c].username
       /\ user_cursors'[r][u].color = get_color_for_user(u)
       /\ \A v \in DOMAIN user_cursors'[r] \ {u} :
             v \in DOMAIN user_cursors[r] /\ user_cursors'[r][v] = user_cursors[r][v]
       /\ DOMAIN user_cursors[r] \subseteq DOMAIN user_cursors'[r]

\* C37: a cursor is created at position 0 when its user connects; a code_update
\* or cursor_update of user u with position p leaves the cursor of u at p with
\* the username and color u got at connect, and every other cursor of the room
\* as it was
CursorFollowsUpdates ==
    [][\A c \in Conns :
          /\ Register(c) =>
                user_cursors'[local[c].room_id][local[c].user_id].position = 0
          /\ \A p \in Positions :
                /\ (\E code \in Codes : RecvCodeUpdate(c, code, p)) => CursorMoved(c, p)
                /\ RecvCursorUpdate(c, p, None) => CursorMoved(c, p)]_vars


\* the join of c fails in this step, connect raises through its except
\* branch: the send of its welcome snapshot has raised, the user_joined frame
\* cannot be built because the room is gone, or the user_joined broadcast raises
JoinFails(c) ==
    /\ pc'[c] = "crashed"
    /\ \/ pc[c] \in {"welcome_err", "welcome"}
       \/ pc[c] = "bcast" /\ bcast[c].ctx = "join"

\* C38: a join that fails while the welcome snapshot or the user_joined
\* broadcast is sent is undone: the connection is in no room's connections and
\* has no connection_info, its User and cursor are gone, the User and cursor of
\* every other session of the room are as they were, and the durable counter
\* is what it was before the join
FailedJoinIsUndone ==
    [][\A c \in Conns :
          JoinFails(c) =>
              LET r == local[c].room_id
                  u == local[c].user_id
                  others == {local[d].user_id : d \in Members(r) \ {c}}
              IN /\ \A x \in DOMAIN active_connections' : c \notin active_connections'[x]
                 /\ c \notin DOMAIN connection_info'
                 /\ u \notin others =>
                        /\ u \notin DOMAIN Get(room_users, r, EmptyDict)'
                        /\ u \notin DOMAIN Get(user_cursors, r, EmptyDict)'
                 /\ \A v \in others :
                        /\ v \in DOMAIN Get(room_users, r, EmptyDict)'
                        /\ v \in DOMAIN Get(user_cursors, r, EmptyDict)'
                 /\ r \in DOMAIN db => db'[r].active_users = local[c].active_users]_vars
====
